---- MODULE Spec2Model ----
(***************************************************************************)
(* Interactive (viewport) render session controller of BlendLuxCore:       *)
(* engine/viewport.py.  Two execution contexts are modelled: the UI thread *)
(* that runs view_update and view_draw to completion one after the other,  *)
(* and the background threads launched by view_update that run             *)
(* start_session.  Every read or write of a shared engine attribute is a   *)
(* step of its own, so the two contexts interleave as CPython threads do.  *)
(***************************************************************************)
EXTENDS Integers, Sequences, FiniteSets, TLC

\* ---------------------------------------------------------------- bounds
MaxSessions == 2
MaxTime == 4
MaxThreads == 2
NumScenes == 2
NumCams == 2
NumDims == 2

\* ------------------------------------------------------- value encodings
\* Python's None as the value of an engine attribute.
None == 0
\* An attribute removed by "del engine.session" and not yet rebound.
Deleted == -1
\* The object built by export.Exporter(scene).
Exporter == 1

Scenes == 1..NumScenes
Cams == 1..NumCams
Dims == 1..NumDims
Threads == 1..MaxThreads

\* "changes=None" default of view_update, and the ChangeSet bitmasks a caller
\* may pass instead (0 is the empty set).
NoChangesArg == -1
ChangeArgs == {NoChangesArg, 0, 1}

VARIABLES
    \* attributes of the engine object
    session, exporter, starting_session, viewport_start_time, framebuffer,
    \* module global of viewport.py
    last_cam_str,
    \* host application: evaluated scene, viewport camera, viewport size,
    \* status line written by update_stats, wall clock read by time()
    scene, cam, dims, stats, now,
    \* render library and exporter objects
    sessState, editing, exported, nextSession,
    \* UI thread: position, running handler, its locals, the calls it made,
    \* the exception that left it
    pc, handler, changes, cam_props, luxcore_scene, calls, raised,
    \* background threads: position, session being started, Start() calls
    bgpc, bgsess, starts,
    \* history: a view_update was dropped while the scene differed from the
    \* exported state and no view_update has been processed since; the camera
    \* snapshot this engine's view_draw serialized last
    missed, own_cam_str

engineVars == <<session, exporter, starting_session, viewport_start_time, framebuffer>>
hostVars == <<scene, cam, dims, stats, now>>
libVars == <<sessState, editing, exported, nextSession>>
uiVars == <<pc, handler, changes, cam_props, luxcore_scene, calls, raised>>
bgVars == <<bgpc, bgsess, starts>>
histVars == <<missed, own_cam_str>>
vars == <<engineVars, last_cam_str, hostVars, libVars, uiVars, bgVars, histVars>>

\* ----------------------------------------------------- pure helpers
\* str(cam_props): the serialized camera properties.
CamStr(c) == IF c = 1 THEN "scene.camera.lookat.orig = 1" ELSE
             IF c = 2 THEN "scene.camera.lookat.orig = 2" ELSE "scene.camera.lookat.orig = 3"

\* One entry of the call record: the operation, for a call on a session
\* object the state that object was in, and whether the call returned (TRUE)
\* or raised (FALSE).
Call(op, on, ok) == [op |-> op, on |-> on, ok |-> ok]
Log(op) == Append(calls, Call(op, "-", TRUE))
LogOutcome(op, ok) == Append(calls, Call(op, "-", ok))
LogOn(op, s) == Append(calls, Call(op, sessState[s], TRUE))
LogOnOutcome(op, s, ok) == Append(calls, Call(op, sessState[s], ok))
Failed == {calls[i].op : i \in {j \in 1..Len(calls) : ~calls[j].ok}}
Ops == {calls[i].op : i \in 1..Len(calls)}
Count(op) == Cardinality({i \in 1..Len(calls) : calls[i].op = op})
Pos(op) == CHOOSE i \in 1..Len(calls) : calls[i].op = op

InFlight == {t \in Threads : bgpc[t] # "off"}

\* "if engine.starting_session: return"
GuardDropsMut(starting) == FALSE
GuardDrops(starting) == starting

\* "if engine.session is None"
SessionIsNoneMut(s) == TRUE
SessionIsNone(s) == s = None

\* truth value of engine.session in "if engine.session and ..."
TruthyMut(s) == TRUE
Truthy(s) == s # None

\* "engine.starting_session = True"
StartingFlagOnCreateMut == FALSE
StartingFlagOnCreate == TRUE

\* FrameBuffer.needs_replacement(context, scene): the buffer was built for
\* other output dimensions than the viewport has now.
needs_replacement(fb, d) == fb # d

\* "if not engine.framebuffer or engine.framebuffer.needs_replacement(...)"
NeedsNewFrameBufferMut(fb, d) == TRUE
NeedsNewFrameBuffer(fb, d) == fb = None \/ needs_replacement(fb, d)

\* "if new_cam_str != last_cam_str"
CameraChangedMut(new, last) == TRUE
CameraChanged(new, last) == new # last

\* "if changes is None"
ChangesIsNoneMut(ch) == FALSE
ChangesIsNone(ch) == ch = NoChangesArg

\* "engine.session = engine.exporter.update(...)": the value bound to
\* engine.session, given update's return value and the old binding.
StoredSessionMut(ret, old) == old
StoredSession(ret, old) == ret

\* "if changes:" (truth value of the ChangeSet bitmask)
ChangesTruthyMut(ch) == FALSE
ChangesTruthy(ch) == ch # 0

\* "except RuntimeError as error" around UpdateStats()
StatsErrorCaughtMut == FALSE
StatsErrorCaught == TRUE

\* Statement order of start_session: the position that follows a returned
\* Start() (line 16), the timestamp (line 17) and the guard reset (line 32).
BgNextMut(p) == IF p = "bg_starting" THEN "bg_clear_guard" ELSE
                IF p = "bg_clear_guard" THEN "bg_time" ELSE "off"
BgNext(p) == IF p = "bg_starting" THEN "bg_time" ELSE
             IF p = "bg_time" THEN "bg_clear_guard" ELSE "off"

\* Exporter.get_changes: diff of the scene against the exported state.
get_changes(exp, sc) == IF exp = sc THEN 0 ELSE 1

\* ------------------------------------------------------------------ Init
Init ==
    /\ session = None
    /\ exporter = None
    /\ starting_session = FALSE
    /\ viewport_start_time = 0
    /\ framebuffer = None
    /\ last_cam_str = ""
    /\ scene \in Scenes
    /\ cam \in Cams
    /\ dims \in Dims
    /\ stats = ""
    /\ now = 1
    /\ sessState = <<>>
    /\ editing = None
    /\ exported = 0
    /\ nextSession = 1
    /\ pc = "idle"
    /\ handler = "none"
    /\ changes = NoChangesArg
    /\ cam_props = 0
    /\ luxcore_scene = None
    /\ calls = <<>>
    /\ raised = "none"
    /\ bgpc = [t \in Threads |-> "off"]
    /\ bgsess = [t \in Threads |-> None]
    /\ starts = [t \in Threads |-> 0]
    /\ missed = FALSE
    /\ own_cam_str = ""

\* ------------------------------------------------------ host application
\* The user edits the scene.
SceneEdit ==
    /\ UNCHANGED histVars
    /\ pc = "idle"
    /\ \E s \in Scenes \ {scene} : scene' = s
    /\ UNCHANGED <<engineVars, last_cam_str, cam, dims, stats, now, libVars, uiVars, bgVars>>

\* The user orbits the viewport camera (no scene-change event is sent).
CameraOrbit ==
    /\ UNCHANGED histVars
    /\ pc = "idle"
    /\ \E c \in Cams \ {cam} : cam' = c
    /\ UNCHANGED <<engineVars, last_cam_str, scene, dims, stats, now, libVars, uiVars, bgVars>>

\* The user resizes the viewport.
Resize ==
    /\ UNCHANGED histVars
    /\ pc = "idle"
    /\ \E d \in Dims \ {dims} : dims' = d
    /\ UNCHANGED <<engineVars, last_cam_str, scene, cam, stats, now, libVars, uiVars, bgVars>>

\* ------------------------------------------------------------ view_update
\* The UI thread leaves the running handler with an exception.
Return ==
    /\ pc' = "idle"
    /\ changes' = NoChangesArg
    /\ cam_props' = 0
    /\ luxcore_scene' = None

\* The UI thread moves on inside the handler, its locals untouched.
Goto(l) ==
    /\ pc' = l
    /\ UNCHANGED <<changes, cam_props, luxcore_scene>>

Raise(e) ==
    /\ Return
    /\ raised' = e

\* The host calls view_update(engine, context, depsgraph, changes).
ViewUpdateCall ==
    /\ UNCHANGED histVars
    /\ pc = "idle"
    /\ nextSession <= MaxSessions
    /\ now + 2 <= MaxTime
    /\ \E ch \in ChangeArgs : changes' = ch
    /\ pc' = "vu_guard"
    /\ UNCHANGED <<cam_props, luxcore_scene>>
    /\ handler' = "view_update"
    /\ calls' = <<>>
    /\ raised' = "none"
    /\ UNCHANGED <<engineVars, last_cam_str, hostVars, libVars, bgVars>>

\* line 36-38
VuGuard ==
    /\ pc = "vu_guard"
    /\ IF GuardDrops(starting_session)
         THEN /\ Return
              /\ missed' = (missed \/ exported # scene)
         ELSE /\ Goto("vu_denoiser")
              /\ UNCHANGED missed
    /\ UNCHANGED own_cam_str
    /\ UNCHANGED <<engineVars, last_cam_str, hostVars, libVars, handler, calls, raised, bgVars>>

\* line 42-43
VuResetDenoiser ==
    /\ UNCHANGED histVars
    /\ pc = "vu_denoiser"
    /\ calls' = IF framebuffer # None THEN Log("reset_denoiser") ELSE calls
    /\ Goto("vu_session")
    /\ UNCHANGED <<engineVars, last_cam_str, hostVars, libVars, handler, raised, bgVars>>

\* line 47
VuCheckSession ==
    /\ UNCHANGED histVars
    /\ pc = "vu_session"
    /\ IF session = Deleted
         THEN Raise("AttributeError")
         ELSE /\ Goto(IF SessionIsNone(session) THEN "vu_creating" ELSE "vu_changes")
              /\ UNCHANGED raised
    /\ UNCHANGED <<engineVars, last_cam_str, hostVars, libVars, handler, calls, bgVars>>

\* line 51
VuStatsCreating ==
    /\ UNCHANGED histVars
    /\ pc = "vu_creating"
    /\ stats' = "Creating Render Session..."
    /\ Goto("vu_exporter")
    /\ UNCHANGED <<engineVars, last_cam_str, scene, cam, dims, now, libVars, handler,
                   calls, raised, bgVars>>

\* line 52: export.Exporter(scene) returns a new exporter or raises
VuExporter ==
    /\ UNCHANGED histVars
    /\ pc = "vu_exporter"
    /\ \E ok \in BOOLEAN :
      /\ calls' = LogOutcome("Exporter", ok)
      /\ IF ok
           THEN /\ exporter' = Exporter
                /\ exported' = 0
                /\ Goto("vu_create_session")
           ELSE /\ Goto("vu_except_del")
                /\ UNCHANGED <<exporter, exported>>
    /\ UNCHANGED <<session, starting_session, viewport_start_time, framebuffer,
                   last_cam_str, hostVars, sessState, editing, nextSession, handler,
                   raised, bgVars>>

\* line 53: engine.exporter.create_session(depsgraph, context) returns a new,
\* not yet started session or raises
VuCreateSession ==
    /\ UNCHANGED histVars
    /\ pc = "vu_create_session"
    /\ \E ok \in BOOLEAN :
      /\ calls' = LogOutcome("create_session", ok)
      /\ IF ok
           THEN /\ session' = nextSession
                /\ nextSession' = nextSession + 1
                /\ sessState' = Append(sessState, "created")
                /\ exported' = scene
                /\ Goto("vu_set_guard")
           ELSE /\ Goto("vu_except_del")
                /\ UNCHANGED <<session, nextSession, sessState, exported>>
    /\ UNCHANGED <<exporter, starting_session, viewport_start_time, framebuffer,
                   last_cam_str, hostVars, editing, handler,
                   raised, bgVars>>

\* line 55
VuSetGuard ==
    /\ UNCHANGED histVars
    /\ pc = "vu_set_guard"
    /\ starting_session' = StartingFlagOnCreate
    /\ Goto("vu_launch")
    /\ UNCHANGED <<session, exporter, viewport_start_time, framebuffer, last_cam_str,
                   hostVars, libVars, handler, calls, raised, bgVars>>

\* line 56-57: _thread.start_new_thread(start_session, (engine,)) starts a
\* thread, or raises when the process cannot start another one
VuLaunch ==
    /\ UNCHANGED own_cam_str
    /\ pc = "vu_launch"
    /\ \/ \E t \in Threads :
            /\ calls' = LogOutcome("start_new_thread", TRUE)
            /\ bgpc[t] = "off"
            /\ \A u \in Threads : u < t => bgpc[u] # "off"
            /\ bgpc' = [bgpc EXCEPT ![t] = "bg_start"]
            /\ bgsess' = [bgsess EXCEPT ![t] = None]
            /\ starts' = [starts EXCEPT ![t] = 0]
            /\ Return
            /\ missed' = FALSE
       \/ /\ calls' = LogOutcome("start_new_thread", FALSE)
          /\ Goto("vu_except_del")
          /\ UNCHANGED <<bgVars, missed>>
    /\ UNCHANGED <<engineVars, last_cam_str, hostVars, libVars, handler, raised>>

\* line 59
VuExceptDel ==
    /\ UNCHANGED histVars
    /\ pc = "vu_except_del"
    /\ session' = Deleted
    /\ Goto("vu_except_none")
    /\ UNCHANGED <<exporter, starting_session, viewport_start_time, framebuffer,
                   last_cam_str, hostVars, libVars, handler, calls, raised, bgVars>>

\* line 60
VuExceptNone ==
    /\ UNCHANGED histVars
    /\ pc = "vu_except_none"
    /\ session' = None
    /\ Goto("vu_except_exporter")
    /\ UNCHANGED <<exporter, starting_session, viewport_start_time, framebuffer,
                   last_cam_str, hostVars, libVars, handler, calls, raised, bgVars>>

\* line 62
VuExceptExporter ==
    /\ UNCHANGED histVars
    /\ pc = "vu_except_exporter"
    /\ exporter' = None
    /\ exported' = 0
    /\ Goto("vu_except_stats")
    /\ UNCHANGED <<session, starting_session, viewport_start_time, framebuffer,
                   last_cam_str, hostVars, sessState, editing, nextSession,
                   handler, calls, raised, bgVars>>

\* line 64-69
VuExceptStats ==
    /\ pc = "vu_except_stats"
    /\ stats' = "Error: "
    /\ Return
    /\ missed' = FALSE
    /\ UNCHANGED own_cam_str
    /\ UNCHANGED <<engineVars, last_cam_str, scene, cam, dims, now, libVars, handler,
                   calls, raised, bgVars>>

\* line 71-72
VuGetChanges ==
    /\ UNCHANGED histVars
    /\ pc = "vu_changes"
    /\ IF ChangesIsNone(changes)
         THEN IF exporter = None
                THEN /\ Raise("AttributeError")
                     /\ UNCHANGED calls
                ELSE /\ changes' = get_changes(exported, scene)
                     /\ calls' = Log("get_changes")
                     /\ pc' = "vu_update"
                     /\ UNCHANGED <<cam_props, luxcore_scene>>
                     /\ UNCHANGED raised
         ELSE /\ Goto("vu_update")
              /\ UNCHANGED <<calls, raised>>
    /\ UNCHANGED <<engineVars, last_cam_str, hostVars, libVars, handler,
                   bgVars>>

\* line 80: engine.exporter.update(depsgraph, context, engine.session, changes)
\* exports the scene and returns the session, or a started replacement of it
VuUpdate ==
    /\ UNCHANGED histVars
    /\ pc = "vu_update"
    /\ IF exporter = None \/ session = Deleted
         THEN /\ Raise("AttributeError")
              /\ UNCHANGED <<session, sessState, nextSession, exported, calls, editing>>
         ELSE /\ calls' = Log("update")
              /\ exported' = IF changes # 0 THEN scene ELSE exported
              /\ \/ /\ session' = StoredSession(session, session)
                    /\ UNCHANGED <<sessState, nextSession, editing>>
                 \/ /\ changes # 0
                    /\ session > 0
                    /\ session' = StoredSession(nextSession, session)
                    /\ nextSession' = nextSession + 1
                    /\ sessState' = Append([sessState EXCEPT ![session] = "stopped"],
                                           "started")
                    /\ editing' = None
              /\ Goto("vu_time")
              /\ UNCHANGED raised
    /\ UNCHANGED <<exporter, starting_session, viewport_start_time, framebuffer,
                   last_cam_str, hostVars, handler, bgVars>>

\* line 82-83
VuTime ==
    /\ pc = "vu_time"
    /\ IF ChangesTruthy(changes)
         THEN /\ viewport_start_time' = now
              /\ now' = now + 1
         ELSE UNCHANGED <<viewport_start_time, now>>
    /\ Return
    /\ missed' = FALSE
    /\ UNCHANGED own_cam_str
    /\ UNCHANGED <<session, exporter, starting_session, framebuffer, last_cam_str,
                   scene, cam, dims, stats, libVars, handler, calls, raised, bgVars>>

view_update ==
    \/ ViewUpdateCall \/ VuGuard \/ VuResetDenoiser \/ VuCheckSession
    \/ VuStatsCreating \/ VuExporter \/ VuCreateSession \/ VuSetGuard \/ VuLaunch
    \/ VuExceptDel \/ VuExceptNone \/ VuExceptExporter \/ VuExceptStats
    \/ VuGetChanges \/ VuUpdate \/ VuTime

\* -------------------------------------------------------------- view_draw
\* The host calls view_draw(engine, context, depsgraph).
ViewDrawCall ==
    /\ UNCHANGED histVars
    /\ pc = "idle"
    /\ pc' = "vd_framebuffer"
    /\ UNCHANGED <<changes, cam_props, luxcore_scene>>
    /\ handler' = "view_draw"
    /\ calls' = <<>>
    /\ raised' = "none"
    /\ UNCHANGED <<engineVars, last_cam_str, hostVars, libVars, bgVars>>

\* line 90-92
VdFrameBuffer ==
    /\ UNCHANGED histVars
    /\ pc = "vd_framebuffer"
    /\ IF NeedsNewFrameBuffer(framebuffer, dims)
         THEN /\ framebuffer' = dims
              /\ calls' = Log("FrameBuffer")
         ELSE UNCHANGED <<framebuffer, calls>>
    /\ Goto("vd_session")
    /\ UNCHANGED <<session, exporter, starting_session, viewport_start_time,
                   last_cam_str, hostVars, libVars, handler, raised, bgVars>>

\* line 94, left operand: engine.session
VdCheckSession ==
    /\ UNCHANGED histVars
    /\ pc = "vd_session"
    /\ IF session = Deleted
         THEN Raise("AttributeError")
         ELSE /\ Goto(IF Truthy(session) THEN "vd_starting" ELSE "vd_tag_redraw")
              /\ UNCHANGED raised
    /\ UNCHANGED <<engineVars, last_cam_str, hostVars, libVars, handler, calls, bgVars>>

\* line 94, right operand: not engine.starting_session
VdCheckStarting ==
    /\ UNCHANGED histVars
    /\ pc = "vd_starting"
    /\ Goto(IF ~starting_session THEN "vd_camera" ELSE "vd_tag_redraw")
    /\ UNCHANGED <<engineVars, last_cam_str, hostVars, libVars, handler, calls, raised, bgVars>>

\* line 97-101: camera.convert, str(cam_props), comparison with last_cam_str
VdCamera ==
    /\ pc = "vd_camera"
    /\ cam_props' = cam
    /\ own_cam_str' = CamStr(cam)
    /\ UNCHANGED missed
    /\ IF CameraChanged(CamStr(cam), last_cam_str)
         THEN /\ last_cam_str' = CamStr(cam)
              /\ pc' = "vd_get_scene"
         ELSE /\ UNCHANGED last_cam_str
              /\ pc' = "vd_update_stats"
    /\ UNCHANGED <<changes, luxcore_scene>>
    /\ UNCHANGED <<engineVars, hostVars, libVars, handler, calls, raised, bgVars>>

\* A method call on engine.session: the attribute lookup on None (or on the
\* deleted attribute) raises AttributeError.
Absent == session = None \/ session = Deleted

\* line 102
VdGetScene ==
    /\ UNCHANGED histVars
    /\ pc = "vd_get_scene"
    /\ IF Absent
         THEN /\ Raise("AttributeError")
              /\ UNCHANGED calls
         ELSE /\ luxcore_scene' = session
              /\ calls' = LogOn("GetRenderConfig", session)
              /\ pc' = "vd_begin_edit"
              /\ UNCHANGED <<changes, cam_props>>
              /\ UNCHANGED raised
    /\ UNCHANGED <<engineVars, last_cam_str, hostVars, libVars, handler, bgVars>>

\* line 103
VdBeginSceneEdit ==
    /\ UNCHANGED histVars
    /\ pc = "vd_begin_edit"
    /\ IF Absent
         THEN /\ Raise("AttributeError")
              /\ UNCHANGED <<editing, calls>>
         ELSE /\ editing' = session
              /\ calls' = LogOn("BeginSceneEdit", session)
              /\ Goto("vd_parse")
              /\ UNCHANGED raised
    /\ UNCHANGED <<engineVars, last_cam_str, hostVars, sessState, exported, nextSession,
                   handler, bgVars>>

\* line 104: luxcore_scene.Parse(cam_props) applies the camera properties or
\* raises
VdParse ==
    /\ UNCHANGED histVars
    /\ pc = "vd_parse"
    /\ \E ok \in BOOLEAN :
      /\ calls' = LogOnOutcome("Parse", luxcore_scene, ok)
      /\ IF ok
           THEN /\ Goto("vd_end_edit")
                /\ UNCHANGED raised
           ELSE Raise("RuntimeError")
    /\ UNCHANGED <<engineVars, last_cam_str, hostVars, libVars, handler, bgVars>>

\* line 105
VdEndSceneEdit ==
    /\ UNCHANGED histVars
    /\ pc = "vd_end_edit"
    /\ IF Absent
         THEN /\ Raise("AttributeError")
              /\ UNCHANGED <<editing, calls>>
         ELSE /\ editing' = None
              /\ calls' = LogOn("EndSceneEdit", session)
              /\ Goto("vd_sleep")
              /\ UNCHANGED raised
    /\ UNCHANGED <<engineVars, last_cam_str, hostVars, sessState, exported, nextSession,
                   handler, bgVars>>

\* line 106-107
VdSleep ==
    /\ UNCHANGED histVars
    /\ pc = "vd_sleep"
    /\ calls' = Log("sleep")
    /\ Goto("vd_update_stats")
    /\ UNCHANGED <<engineVars, last_cam_str, hostVars, libVars, handler, raised, bgVars>>

\* line 109-112: UpdateStats() returns or raises RuntimeError, which is caught
VdUpdateStats ==
    /\ UNCHANGED histVars
    /\ pc = "vd_update_stats"
    /\ IF Absent
         THEN /\ Raise("AttributeError")
              /\ UNCHANGED calls
         ELSE \E ok \in BOOLEAN :
                /\ calls' = LogOnOutcome("UpdateStats", session, ok)
                /\ IF ok \/ StatsErrorCaught
                     THEN /\ Goto("vd_wait_frame")
                          /\ UNCHANGED raised
                     ELSE Raise("RuntimeError")
    /\ UNCHANGED <<engineVars, last_cam_str, hostVars, libVars, handler, bgVars>>

\* line 113
VdWaitNewFrame ==
    /\ UNCHANGED histVars
    /\ pc = "vd_wait_frame"
    /\ IF Absent
         THEN /\ Raise("AttributeError")
              /\ UNCHANGED calls
         ELSE /\ calls' = LogOn("WaitNewFrame", session)
              /\ Goto("vd_fb_update")
              /\ UNCHANGED raised
    /\ UNCHANGED <<engineVars, last_cam_str, hostVars, libVars, handler, bgVars>>

\* line 114: framebuffer.update(engine.session, scene) pulls the frame
VdFrameBufferUpdate ==
    /\ UNCHANGED histVars
    /\ pc = "vd_fb_update"
    /\ IF Absent
         THEN /\ Raise("AttributeError")
              /\ UNCHANGED calls
         ELSE /\ calls' = LogOn("framebuffer.update", session)
              /\ Goto("vd_fb_draw")
              /\ UNCHANGED raised
    /\ UNCHANGED <<engineVars, last_cam_str, hostVars, libVars, handler, bgVars>>

\* line 115
VdFrameBufferDraw ==
    /\ UNCHANGED histVars
    /\ pc = "vd_fb_draw"
    /\ calls' = Log("framebuffer.draw")
    /\ Goto("vd_tag_redraw")
    /\ UNCHANGED <<engineVars, last_cam_str, hostVars, libVars, handler, raised, bgVars>>

\* line 116
VdTagRedraw ==
    /\ UNCHANGED histVars
    /\ pc = "vd_tag_redraw"
    /\ calls' = Log("tag_redraw")
    /\ Return
    /\ UNCHANGED <<engineVars, last_cam_str, hostVars, libVars, handler, raised, bgVars>>

view_draw ==
    \/ ViewDrawCall \/ VdFrameBuffer \/ VdCheckSession \/ VdCheckStarting \/ VdCamera
    \/ VdGetScene \/ VdBeginSceneEdit \/ VdParse \/ VdEndSceneEdit \/ VdSleep
    \/ VdUpdateStats \/ VdWaitNewFrame \/ VdFrameBufferUpdate \/ VdFrameBufferDraw
    \/ VdTagRedraw

\* line 97-101 of a view_draw on another engine instance of the same process:
\* it compares its own camera string with the module-global last_cam_str and
\* overwrites the global when they differ. The UI thread runs one handler at
\* a time, so this happens between two handlers of the engine modelled here.
OtherViewDraw ==
    /\ UNCHANGED histVars
    /\ pc = "idle"
    /\ \E c \in Cams :
         /\ CameraChanged(CamStr(c), last_cam_str)
         /\ last_cam_str' = CamStr(c)
    /\ UNCHANGED <<engineVars, hostVars, libVars, uiVars, bgVars>>

\* ---------------------------------------------------------- start_session
\* line 16, first half: engine.session is read and Start() entered
BgStartCall(t) ==
    /\ UNCHANGED histVars
    /\ bgpc[t] = "bg_start"
    /\ IF Absent
         THEN /\ bgpc' = [bgpc EXCEPT ![t] = "bg_except_del"]
              /\ UNCHANGED <<bgsess, starts, sessState>>
         ELSE /\ bgsess' = [bgsess EXCEPT ![t] = session]
              /\ starts' = [starts EXCEPT ![t] = @ + 1]
              /\ sessState' = [sessState EXCEPT ![session] = "starting"]
              /\ bgpc' = [bgpc EXCEPT ![t] = "bg_starting"]
    /\ UNCHANGED <<engineVars, last_cam_str, hostVars, editing, exported, nextSession,
                   uiVars>>

\* line 16, second half: the blocking Start() returns or raises
BgStartReturn(t) ==
    /\ UNCHANGED histVars
    /\ bgpc[t] = "bg_starting"
    /\ \E ok \in BOOLEAN :
         IF ok
           THEN /\ sessState' = [sessState EXCEPT ![bgsess[t]] = "started"]
                /\ bgpc' = [bgpc EXCEPT ![t] = BgNext("bg_starting")]
           ELSE /\ sessState' = [sessState EXCEPT ![bgsess[t]] = "failed"]
                /\ bgpc' = [bgpc EXCEPT ![t] = "bg_except_del"]
    /\ UNCHANGED <<engineVars, last_cam_str, hostVars, editing, exported, nextSession,
                   uiVars, bgsess, starts>>

\* line 17
BgTime(t) ==
    /\ UNCHANGED histVars
    /\ bgpc[t] = "bg_time"
    /\ viewport_start_time' = now
    /\ now' = now + 1
    /\ bgpc' = [bgpc EXCEPT ![t] = BgNext("bg_time")]
    /\ UNCHANGED <<session, exporter, starting_session, framebuffer, last_cam_str,
                   scene, cam, dims, stats, libVars, uiVars, bgsess, starts>>

\* line 19
BgExceptDel(t) ==
    /\ UNCHANGED histVars
    /\ bgpc[t] = "bg_except_del"
    /\ session' = Deleted
    /\ bgpc' = [bgpc EXCEPT ![t] = "bg_except_none"]
    /\ UNCHANGED <<exporter, starting_session, viewport_start_time, framebuffer,
                   last_cam_str, hostVars, libVars, uiVars, bgsess, starts>>

\* line 20
BgExceptNone(t) ==
    /\ UNCHANGED histVars
    /\ bgpc[t] = "bg_except_none"
    /\ session' = None
    /\ bgpc' = [bgpc EXCEPT ![t] = "bg_except_exporter"]
    /\ UNCHANGED <<exporter, starting_session, viewport_start_time, framebuffer,
                   last_cam_str, hostVars, libVars, uiVars, bgsess, starts>>

\* line 22
BgExceptExporter(t) ==
    /\ UNCHANGED histVars
    /\ bgpc[t] = "bg_except_exporter"
    /\ exporter' = None
    /\ exported' = 0
    /\ bgpc' = [bgpc EXCEPT ![t] = "bg_except_stats"]
    /\ UNCHANGED <<session, starting_session, viewport_start_time, framebuffer,
                   last_cam_str, hostVars, sessState, editing, nextSession,
                   uiVars, bgsess, starts>>

\* line 24-28
BgExceptStats(t) ==
    /\ UNCHANGED histVars
    /\ bgpc[t] = "bg_except_stats"
    /\ stats' = "Error: "
    /\ bgpc' = [bgpc EXCEPT ![t] = "bg_clear_guard"]
    /\ UNCHANGED <<engineVars, last_cam_str, scene, cam, dims, now, libVars, uiVars,
                   bgsess, starts>>

\* line 32, after which the thread ends
BgClearGuard(t) ==
    /\ UNCHANGED histVars
    /\ bgpc[t] = "bg_clear_guard"
    /\ starting_session' = FALSE
    /\ bgpc' = [bgpc EXCEPT ![t] = BgNext("bg_clear_guard")]
    /\ UNCHANGED <<session, exporter, viewport_start_time, framebuffer, last_cam_str,
                   hostVars, libVars, uiVars, bgsess, starts>>

start_session(t) ==
    \/ BgStartCall(t) \/ BgStartReturn(t) \/ BgTime(t)
    \/ BgExceptDel(t) \/ BgExceptNone(t) \/ BgExceptExporter(t) \/ BgExceptStats(t)
    \/ BgClearGuard(t)

\* ------------------------------------------------------------------ Spec
Next ==
    \/ SceneEdit \/ CameraOrbit \/ Resize
    \/ view_update
    \/ view_draw
    \/ OtherViewDraw
    \/ \E t \in Threads : start_session(t)

Spec == Init /\ [][Next]_vars

\* ================================================================ claims
\* Positions of the UI thread inside view_update's creation path, before the
\* session is assigned.
BeforeCreate == {"vu_creating", "vu_exporter", "vu_create_session"}
\* Positions of view_draw at which the next step is a call on engine.session.
SessionCallSites == {"vd_get_scene", "vd_begin_edit", "vd_end_edit", "vd_update_stats",
                     "vd_wait_frame", "vd_fb_update"}
SessionOps == {"GetRenderConfig", "BeginSceneEdit", "Parse", "EndSceneEdit",
               "UpdateStats", "WaitNewFrame", "framebuffer.update"}
CreateOps == {"Exporter", "create_session", "start_new_thread"}
\* A step taken by the UI thread (background steps leave pc alone).
UIStep == pc' # pc

\* C1: a view_update call that reads starting_session = True returns at once:
\* session, exporter, guard, timestamp, framebuffer, exporter cache, threads
\* and status line are unchanged, no call has been made, nothing is kept of
\* the event.
C1_GuardedEventIsDropped ==
    [][(pc = "vu_guard" /\ starting_session /\ UIStep) =>
          /\ pc' = "idle"
          /\ calls' = <<>>
          /\ raised' = "none"
          /\ changes' = NoChangesArg
          /\ UNCHANGED <<engineVars, last_cam_str, hostVars, libVars, bgVars>>]_vars

\* C1 witness: a view_update has returned without any call while a start is
\* in flight and the guard is set.
C1_Witness ==
    /\ pc = "idle" /\ handler = "view_update" /\ calls = <<>>
    /\ starting_session /\ InFlight # {} /\ session > 0

\* The controller is Idle and the error was surfaced.
IdleAfterFailure ==
    /\ session = None
    /\ exporter = None
    /\ starting_session = FALSE
    /\ stats = "Error: "

\* C2: when the except handler of view_update has finished, and when a
\* background thread whose Start() raised has finished, the controller is
\* Idle: no session, no exporter, guard clear, error on the status line.
C2_FailureLeavesIdle ==
    [][/\ (pc = "vu_except_stats" /\ UIStep) => IdleAfterFailure'
       /\ \A t \in Threads :
            (/\ bgpc[t] = "bg_clear_guard" /\ bgpc'[t] = "off"
             /\ bgsess[t] > 0 /\ sessState[bgsess[t]] = "failed") => IdleAfterFailure']_vars

\* C3: wherever view_draw is about to call a method of engine.session, the
\* session is present and its Start() has returned successfully.
C3_DrawUsesStartedSession ==
    (pc \in SessionCallSites) => (session > 0 /\ sessState[session] = "started")

\* C4: a session is created only when none exists, update is called only
\* when session and exporter exist, no view_update does both, and every
\* view_update that made any call did one of the two.
C4_CreateXorUpdate ==
    /\ (pc \in BeforeCreate) => session = None
    /\ (pc = "vu_update") => (session > 0 /\ exporter = Exporter)
    /\ (handler = "view_update") => ~("update" \in Ops /\ CreateOps \cap Ops # {})
    /\ (handler = "view_update" /\ pc = "idle" /\ calls # <<>>) =>
          (("Exporter" \in Ops) # ("update" \in Ops))

\* C4 witness: a view_update has called update on an existing session.
C4_Witness ==
    /\ pc = "idle" /\ handler = "view_update" /\ "update" \in Ops
    /\ session > 0 /\ exporter = Exporter

C6_GuardMeansStartInFlight ==
    (starting_session /\ pc = "idle") => InFlight # {}

\* C7: a view_draw that found the camera changed has issued exactly one
\* BeginSceneEdit, Parse, EndSceneEdit, in that order, followed by the settle
\* delay, and the stored snapshot is the new one.
C7_CameraEditSequence ==
    (handler = "view_draw" /\ pc = "idle" /\ "GetRenderConfig" \in Ops) =>
        /\ Count("BeginSceneEdit") = 1 /\ Count("Parse") = 1
        /\ Count("EndSceneEdit") = 1 /\ Count("sleep") = 1
        /\ Pos("BeginSceneEdit") < Pos("Parse")
        /\ Pos("Parse") < Pos("EndSceneEdit")
        /\ Pos("EndSceneEdit") < Pos("sleep")

\* C8 as stated: view_draw constructs a FrameBuffer exactly when
\* needs_replacement returned true.
C8_ReplacedIffNeedsReplacement ==
    [][(pc = "vd_framebuffer" /\ UIStep) =>
          (("FrameBuffer" \in Ops') <=>
             (framebuffer # None /\ needs_replacement(framebuffer, dims)))]_vars

\* C8 amended: view_draw constructs a FrameBuffer exactly when the engine has
\* none or needs_replacement returns true; the buffer it leaves matches the
\* viewport, so a redraw with unchanged dimensions constructs none.
C8_ReplacedIffMissingOrNeedsReplacement ==
    [][(pc = "vd_framebuffer" /\ UIStep) =>
          /\ ("FrameBuffer" \in Ops') <=>
                (framebuffer = None \/ needs_replacement(framebuffer, dims))
          /\ ("FrameBuffer" \in Ops') => framebuffer' # framebuffer
          /\ ("FrameBuffer" \notin Ops') => framebuffer' = framebuffer
          /\ framebuffer' # None /\ ~needs_replacement(framebuffer', dims')]_vars

\* C8 witness: a view_draw has replaced the buffer of an earlier view_draw
\* (own_cam_str is only set by a view_draw that ran with a framebuffer).
C8_Witness ==
    /\ pc = "vd_session" /\ "FrameBuffer" \in Ops
    /\ own_cam_str # "" /\ framebuffer = dims

\* C9: at most one background thread is in flight; the creation path is
\* entered and the thread launched only with no thread in flight, and is
\* entered only with guard clear and session absent; a thread has made no
\* Start() call before line 16 and exactly one after it.
C9_OneStartInFlight ==
    /\ Cardinality(InFlight) <= 1
    /\ (pc \in BeforeCreate) => (~starting_session /\ session = None /\ InFlight = {})
    /\ (pc = "vu_launch") => InFlight = {}
    /\ \A t \in Threads :
         /\ bgpc[t] = "bg_start" => starts[t] = 0
         /\ bgpc[t] \in {"bg_starting", "bg_time", "bg_clear_guard"} => starts[t] = 1
         /\ bgpc[t] = "off" => starts[t] <= 1

\* C9 witness: one thread is inside its Start() call.
C9_Witness ==
    \E t \in Threads : bgpc[t] = "bg_starting" /\ starts[t] = 1 /\ starting_session

\* C10: with the UI thread idle, no session and no start in flight, the
\* guard is clear, so the next scene-change event is not dropped and runs
\* the creation path.
C10_NextEventRetries ==
    (pc = "idle" /\ session = None /\ InFlight = {}) => ~GuardDrops(starting_session)

\* C11 as stated: the first poll that passes the guard after a changed scene
\* was dropped runs change detection (exporter.get_changes) on the session.
C11_NextPollDetectsDroppedChange ==
    [][(pc = "vu_session" /\ missed /\ changes = NoChangesArg /\ UIStep) =>
          pc' = "vu_changes"]_vars

\* C11 amended: a drop leaves the exported state untouched and the change
\* pending. The first poll that passes the guard afterwards applies it: if
\* the start succeeded, get_changes reports a change exactly when the scene
\* differs from the exported state and update exports the current scene; if
\* the start failed there is no session, the poll takes the creation path
\* and create_session exports the current scene.
C11_DroppedChangeIsReplayed ==
    [][(missed /\ changes = NoChangesArg /\ UIStep) =>
          /\ (pc = "vu_guard" /\ starting_session) =>
                (exported' = exported /\ scene' = scene /\ missed')
          /\ (pc = "vu_session" /\ raised' = "none") =>
                pc' = (IF session = None THEN "vu_creating" ELSE "vu_changes")
          /\ (pc = "vu_changes" /\ raised' = "none") =>
                /\ "get_changes" \in Ops'
                /\ (changes' # 0) <=> (scene # exported)
          /\ (pc = "vu_create_session" /\ pc' = "vu_set_guard") => exported' = scene']_vars
    /\ [][(missed /\ pc = "vu_update" /\ "get_changes" \in Ops /\ pc' = "vu_time") =>
             /\ "update" \in Ops'
             /\ exported' = scene']_vars
    /\ [][(pc = "vu_time" /\ UIStep) => ~missed']_vars

\* C11 witness: a changed scene was dropped, the poll after the start has
\* detected the change with get_changes and update has exported it.
C11_Witness ==
    /\ pc = "vu_time" /\ missed /\ "get_changes" \in Ops /\ "update" \in Ops
    /\ changes = 1 /\ exported = scene /\ session > 0

\* Positions of view_update after the session was read as present.
UpdatePath == {"vu_changes", "vu_update", "vu_time"}

\* C12: a view_update that finds a session (guard clear, so Running: the
\* session is started, the exporter present, no start in flight) goes
\* through change detection to exporter.update without an exception, binds
\* update's return value to engine.session (the started replacement when
\* update replaced the session), and afterwards resets viewport_start_time
\* to the current time if the change set is non-empty and leaves it alone
\* if it is empty.
C12_RunningEventUpdates ==
    /\ []((pc \in UpdatePath \/ (pc \in {"vu_denoiser", "vu_session"} /\ session > 0)) =>
            /\ session > 0 /\ sessState[session] = "started"
            /\ exporter = Exporter /\ InFlight = {} /\ ~starting_session)
    /\ [][(pc = "vu_session" /\ session > 0 /\ UIStep) => pc' = "vu_changes"]_vars
    /\ [][(pc = "vu_changes" /\ UIStep) =>
             (pc' = "vu_update" /\ session' = session /\ changes' \in {0, 1})]_vars
    /\ [][(pc = "vu_update" /\ UIStep) =>
             /\ pc' = "vu_time" /\ raised' = "none"
             /\ calls' = Append(calls, Call("update", "-", TRUE))
             /\ Count("update") = 0
             /\ IF nextSession' # nextSession
                  THEN /\ session' = nextSession
                       /\ sessState'[session] = "stopped"
                  ELSE session' = session]_vars
    /\ [][(pc = "vu_time" /\ UIStep) =>
             /\ pc' = "idle" /\ raised' = "none" /\ session' = session
             /\ calls' = calls
             /\ (changes # 0) => (viewport_start_time' = now /\
                                  viewport_start_time' # viewport_start_time)
             /\ (changes = 0) => viewport_start_time' = viewport_start_time]_vars

\* C12 witness: a view_update in Running is past an update that replaced the
\* session, with a non-empty change set, about to reset the timestamp.
C12_Witness ==
    /\ pc = "vu_time" /\ "update" \in Ops /\ changes = 1
    /\ session > 1 /\ sessState[1] = "stopped" /\ sessState[session] = "started"
    /\ viewport_start_time # None

\* C13: a finished view_draw that made a call on the session has done
\* exactly one stats refresh, one WaitNewFrame and one frame pull, in that
\* order, after the FrameBuffer construction and the camera edit, and then
\* requested tag_redraw exactly once, as its last call.
C13_RedrawStepOrder ==
    (handler = "view_draw" /\ pc = "idle" /\ Ops \cap SessionOps # {}) =>
        /\ Count("UpdateStats") = 1 /\ Count("WaitNewFrame") = 1
        /\ Count("framebuffer.update") = 1 /\ Count("tag_redraw") = 1
        /\ Pos("UpdateStats") < Pos("WaitNewFrame")
        /\ Pos("WaitNewFrame") < Pos("framebuffer.update")
        /\ Pos("framebuffer.update") < Pos("tag_redraw")
        /\ Pos("tag_redraw") = Len(calls)
        /\ \A i \in 1..Len(calls) :
              /\ calls[i].op = "FrameBuffer" => i = 1
              /\ calls[i].op \in {"GetRenderConfig", "BeginSceneEdit", "Parse",
                                  "EndSceneEdit", "sleep"} => i < Pos("UpdateStats")

\* The current handler has called UpdateStats() and the call raised.
StatsRefreshFailed ==
    \E i \in 1..Len(calls) : calls[i].op = "UpdateStats" /\ ~calls[i].ok

\* C14: an UpdateStats() that raises does not end the redraw: the step goes
\* on to WaitNewFrame without an exception, the finished redraw has called
\* WaitNewFrame, framebuffer.update, framebuffer.draw and tag_redraw once
\* each, in that order, after the failed refresh, and from the failure on
\* the redraw leaves session, exporter and guard flag as they were.
C14_StatsErrorIsIgnored ==
    /\ [][(pc = "vd_update_stats" /\ UIStep /\ StatsRefreshFailed') =>
             (pc' = "vd_wait_frame" /\ raised' = "none")]_vars
    /\ [][(handler' = "view_draw" /\ StatsRefreshFailed') =>
             UNCHANGED <<session, exporter, starting_session>>]_vars
    /\ []((handler = "view_draw" /\ StatsRefreshFailed) =>
            /\ raised = "none" /\ session > 0
            /\ pc \in {"vd_wait_frame", "vd_fb_update", "vd_fb_draw", "vd_tag_redraw", "idle"})
    /\ []((handler = "view_draw" /\ pc = "idle" /\ StatsRefreshFailed) =>
            /\ Count("UpdateStats") = 1 /\ Count("WaitNewFrame") = 1
            /\ Count("framebuffer.update") = 1 /\ Count("framebuffer.draw") = 1
            /\ Count("tag_redraw") = 1
            /\ Pos("UpdateStats") < Pos("WaitNewFrame")
            /\ Pos("WaitNewFrame") < Pos("framebuffer.update")
            /\ Pos("framebuffer.update") < Pos("framebuffer.draw")
            /\ Pos("framebuffer.draw") < Pos("tag_redraw"))

\* C14 witness: a redraw whose stats refresh raised has finished with
\* tag_redraw as its last call.
C14_Witness ==
    /\ handler = "view_draw" /\ pc = "idle" /\ StatsRefreshFailed
    /\ raised = "none" /\ calls[Len(calls)].op = "tag_redraw"
    /\ session > 0 /\ ~starting_session

\* Positions of view_update between the construction of the exporter and the
\* end of its except handler's resets, where the UI thread itself is part
\* way through building or discarding a session.
UIBuilding == {"vu_create_session", "vu_set_guard", "vu_launch", "vu_except_del",
               "vu_except_none", "vu_except_exporter"}

\* The outcome of a start as the UI thread sees it.
StartOutcome ==
    \/ session > 0 /\ sessState[session] = "started" /\ viewport_start_time # None
    \/ session = None /\ exporter = None

\* C15: whenever starting_session is false no background thread is in
\* flight, so none has a pending write; the step that ends a thread is the
\* one that clears the guard and writes nothing else; and wherever the UI
\* thread can observe a clear guard (outside its own session construction)
\* it sees a started session with a recorded timestamp, or neither session
\* nor exporter.
C15_GuardClearedLast ==
    /\ [](~starting_session => InFlight = {})
    /\ []((~starting_session /\ pc \notin UIBuilding) => StartOutcome)
    /\ [][\A t \in Threads :
             /\ (bgpc[t] # "off" /\ bgpc'[t] = "off") =>
                   /\ starting_session /\ ~starting_session'
                   /\ UNCHANGED <<session, exporter, viewport_start_time>>
             /\ (bgpc[t] # "off" /\ bgpc'[t] # "off") => starting_session']_vars

\* C15 witness: view_draw reads a clear guard after a background thread has
\* run Start() to completion and recorded the timestamp.
C15_Witness ==
    /\ pc = "vd_starting" /\ ~starting_session
    /\ \E t \in Threads : starts[t] = 1 /\ bgpc[t] = "off"
    /\ session > 0 /\ sessState[session] = "started" /\ viewport_start_time # None

\* C16: a scene edit is open on a session only while view_draw is between
\* BeginSceneEdit and EndSceneEdit (about to call Parse or EndSceneEdit);
\* at every other position, and once view_draw has finished, it is closed.
C16_SceneEditIsClosed ==
    (editing # None) => (handler = "view_draw" /\ pc \in {"vd_parse", "vd_end_edit"})

\* C17: a view_draw of this engine whose camera string equals the one of its
\* own previous camera conversion finds the camera unchanged and issues no
\* scene edit, whatever other engine instances have drawn in between.
C17_OwnCameraDecidesEdit ==
    [][(pc = "vd_camera" /\ UIStep /\ CamStr(cam) = own_cam_str) =>
          (pc' = "vd_update_stats" /\ last_cam_str' = last_cam_str)]_vars

====
